---- MODULE Spec2Model ----
(***************************************************************************)
(* Model of the migration engine of src/Transfer.py: the record source     *)
(* (JsonFileStreamer), the organisation-unit batcher (Batcher), the import *)
(* sink (DHIS2Client) and the orchestrator (MigrationService.run); and of  *)
(* the schedules of the web application (src/app/routes/schedules.py,      *)
(* src/app/scheduler.py).                                                  *)
(*                                                                         *)
(* Python generators are modelled as coroutines: the consumer's `pc` says  *)
(* whether it is blocked in next() ("for"), and the generator's `gpc` says *)
(* at which yield it is suspended.                                         *)
(***************************************************************************)
EXTENDS Integers, Sequences, FiniteSets, TLC

VARIABLES
    pc,             \* position of the consumer (MigrationService.run, or a plain loop over the batcher)
    records,        \* items JsonFileStreamer.stream_data has yielded so far, in file order
    gpc,            \* position of the chunk_by_org_unit generator
    item,           \* chunk_by_org_unit: loop variable `item`
    current_batch,  \* chunk_by_org_unit: local `current_batch`
    current_ou,     \* chunk_by_org_unit: local `current_ou`
    gen_out,        \* the value handed to the consumer by the last yield
    yielded,        \* every batch chunk_by_org_unit has yielded so far, in order
    batch_size,     \* MigrationService.batch_size (max_batch_size of the batcher)
    config,         \* MigrationConfig (the fields the engine reads)
    mapping_file,   \* content of mappings.json on disk
    response,       \* the answer of the remote side to a POST, when it is fixed in advance
    batch,          \* run: loop variable `batch` (its records are rewritten in place by the sink)
    batch_len,      \* run: local `batch_len`
    total_records,  \* run: local `total_records`
    total_batches,  \* run: local `total_batches`
    failed_batches, \* run: local `failed_batches`
    result,         \* run: local `result`, the ImportResult of the last send
    payload,        \* send_batch: the sanitized record list wrapped into the payload
    elapsed,        \* _poll_tracker_job: local `elapsed`, in ticks
    backoff,        \* _poll_tracker_job: local `backoff`, in ticks
    max_wait,       \* _poll_tracker_job: parameter `max_wait`, in ticks
    exc,            \* the exception in flight in run, if any
    summaries,      \* what print_summary has printed, in order
    obs,            \* observations about the batch in progress (history, not program state)
    rows,           \* the scheduled_jobs table of the web application
    row_count,      \* rows the table has ever been given (each gets a fresh id)
    jobs,           \* the jobs the in-process APScheduler holds
    running         \* BackgroundScheduler.running

\* source and batcher
gvars == <<records, gpc, item, current_batch, current_ou, gen_out, yielded>>
\* the schedules of the web application
schedvars == <<rows, row_count, jobs, running>>
\* configuration and environment
cvars == <<batch_size, config, mapping_file, response, schedvars>>
\* locals of MigrationService.run
rvars == <<batch, batch_len, total_records, total_batches, failed_batches, result>>
\* locals of DHIS2Client.send_batch and _poll_tracker_job
svars == <<payload, elapsed, backoff, max_wait>>

vars == <<pc, gvars, cvars, rvars, svars, exc, summaries, obs>>

---------------------------------------------------------------------------
(* Bounds *)

MaxRecords == 5     \* longest record stream fed to the batcher alone
MaxCap == 3         \* largest batch size cap
MaxCount == 2       \* largest count of an import summary
MaxConflicts == 6   \* longest conflicts list of an import summary
MaxWaitSeconds == 30    \* largest max_wait given to a polling on its own, besides the default
MaxSanitizeLen == 2     \* longest batch given to the sanitizer on its own
MaxSends == 2           \* send_batch calls made while mappings.json is being edited
MaxSchedules == 2       \* rows the scheduled_jobs table is ever given

---------------------------------------------------------------------------
(* Python values *)

\* Python's None, as returned by dict.get for a missing key
None == "None"

OrgUnits == {"ouA", "ouB"}
\* Python strings are sequences of tokens
Values == {<<"1">>, <<"2">>}

\* dict.get(key): the value, or None when the key is absent
Get(d, key) == IF key \in DOMAIN d THEN d[key] ELSE None

\* d[key] = v on a dict
Put(d, key, v) == [k \in (DOMAIN d) \cup {key} |-> IF k = key THEN v ELSE d[k]]

\* Records of the input file: free-form objects, orgUnit optional
Records ==
    {[orgUnit |-> o, value |-> v] : o \in OrgUnits, v \in Values}
        \cup {[value |-> v] : v \in Values}

NoItem == [value |-> <<>>]

---------------------------------------------------------------------------
(* Batcher.chunk_by_org_unit *)

\* line 443: `current_ou is not None and ou != current_ou`
OrgUnitChanged_always(cur, ou) == cur # None
OrgUnitChanged(cur, ou) == cur # None /\ ou # cur

\* line 452: `len(current_batch) >= max_batch_size`
CapReached_gt(b, n) == Len(b) > n
CapReached_never(b, n) == FALSE
CapReached(b, n) == Len(b) >= n

\* lines 444 and 457: `if current_batch:`
NonEmpty_never(b) == FALSE
NonEmpty(b) == b # <<>>

\* A yield: hand the batch to the consumer and suspend at `at`
Yield(b, at) ==
    /\ gen_out' = b
    /\ yielded' = Append(yielded, b)
    /\ gpc' = at
    /\ pc' = "body"

\* lines 448-454: record the org unit, append the item, cut at the cap
AppendAndCap(it, cb) ==
    /\ current_ou' = Get(it, "orgUnit")
    /\ IF CapReached(Append(cb, it), batch_size)
         THEN /\ current_batch' = Append(cb, it)
              /\ Yield(Append(cb, it), "y453")
         ELSE /\ current_batch' = Append(cb, it)
              /\ gpc' = "loop"
              /\ UNCHANGED <<gen_out, yielded, pc>>

\* lines 439-454: the source yields `it`; run the loop body up to its first yield
chunk_item(it) ==
    /\ pc = "for" /\ gpc = "loop"
    /\ records' = Append(records, it)
    /\ item' = it
    /\ IF OrgUnitChanged(current_ou, Get(it, "orgUnit")) /\ NonEmpty(current_batch)
         THEN /\ Yield(current_batch, "y445")
              /\ UNCHANGED <<current_batch, current_ou>>
         ELSE \* line 446 runs also when current_batch is already empty
              AppendAndCap(it, IF OrgUnitChanged(current_ou, Get(it, "orgUnit"))
                                 THEN <<>> ELSE current_batch)

\* lines 446-454: resumed after the yield of line 445
chunk_resume_445 ==
    /\ pc = "for" /\ gpc = "y445"
    /\ AppendAndCap(item, <<>>)
    /\ UNCHANGED <<records, item>>

\* line 454: resumed after the yield of line 453
chunk_resume_453 ==
    /\ pc = "for" /\ gpc = "y453"
    /\ current_batch' = <<>>
    /\ gpc' = "loop"
    /\ UNCHANGED <<pc, records, item, current_ou, gen_out, yielded>>

\* lines 456-458: the source is exhausted
chunk_exhausted ==
    /\ pc = "for" /\ gpc = "loop"
    /\ IF NonEmpty(current_batch)
         THEN Yield(current_batch, "y458")
         ELSE /\ gpc' = "done"
              /\ pc' = "exhausted"
              /\ UNCHANGED <<gen_out, yielded>>
    /\ UNCHANGED <<records, item, current_batch, current_ou>>

\* resumed after the yield of line 458: the generator returns
chunk_resume_458 ==
    /\ pc = "for" /\ gpc = "y458"
    /\ gpc' = "done"
    /\ pc' = "exhausted"
    /\ UNCHANGED <<records, item, current_batch, current_ou, gen_out, yielded>>

---------------------------------------------------------------------------
(* Strings and ImportResult *)

\* `sub in s` on strings
Contains(s, sub) ==
    \E i \in 0..(Len(s) - Len(sub)) : SubSeq(s, i + 1, i + Len(sub)) = sub

\* the literal the orchestrator looks for (lines 302 and 499)
NetworkMarker == <<"Connection/Network", "Error">>

\* lines 41-47: `conflicts or []`
ImportResult(success, status_code, message, conflicts) ==
    [success |-> success, status_code |-> status_code,
     message |-> message, conflicts |-> conflicts]

NoResult == ImportResult(FALSE, 0, <<>>, <<>>)

\* durations are counted in ticks of 1/32 s, which makes every backoff value an integer
TicksPerSecond == 32

---------------------------------------------------------------------------
(* DHIS2Client._load_mappings and _sanitize_batch *)

DropSentinel == "REPLACE_WITH_DEV_UID"

EmptyDict == [k \in {} |-> None]

\* mappings.json has not been read
NoFile == [kind |-> "none", value |-> EmptyDict]

\* lines 211-220: the parsed file, or {} when it is absent or cannot be read.
\* json.load returns whatever JSON value the file holds: a dict or not.
\* mapping_file.kind: "absent", "unreadable", "array" (valid JSON, not an object), "object"
_load_mappings_cached(file) ==
    LET f == IF obs.mappings_read.kind = "none" THEN file ELSE obs.mappings_read
    IN CASE f.kind = "object" -> [is_dict |-> TRUE, value |-> f.value]
         [] f.kind = "array" -> [is_dict |-> FALSE, value |-> EmptyDict]
         [] OTHER -> [is_dict |-> TRUE, value |-> EmptyDict]
_load_mappings(file) ==
    CASE file.kind = "object" -> [is_dict |-> TRUE, value |-> file.value]
      [] file.kind = "array" -> [is_dict |-> FALSE, value |-> EmptyDict]
      [] OTHER -> [is_dict |-> TRUE, value |-> EmptyDict]

\* dict.get(key, {})
GetDict(d, key) == IF key \in DOMAIN d THEN d[key] ELSE EmptyDict

\* rule.get(flag) is truthy
Flag(rule, flag) == flag \in DOMAIN rule /\ rule[flag] = TRUE

\* lines 233-240: categoryOptionCombo and attributeOptionCombo through the COC map
MapCombos_coc_only(it, coc_map) ==
    IF Get(it, "categoryOptionCombo") \in DOMAIN coc_map
      THEN Put(it, "categoryOptionCombo", coc_map[Get(it, "categoryOptionCombo")])
      ELSE it
MapCombos(it, coc_map) ==
    LET a == IF Get(it, "categoryOptionCombo") \in DOMAIN coc_map
               THEN Put(it, "categoryOptionCombo", coc_map[Get(it, "categoryOptionCombo")])
               ELSE it
    IN IF Get(a, "attributeOptionCombo") \in DOMAIN coc_map
         THEN Put(a, "attributeOptionCombo", coc_map[Get(a, "attributeOptionCombo")])
         ELSE a

\* lines 243-247: the record is skipped when its org unit maps to the sentinel
Dropped_never(it, ou_map) == FALSE
Dropped(it, ou_map) ==
    /\ Get(it, "orgUnit") \in DOMAIN ou_map
    /\ ou_map[Get(it, "orgUnit")] = DropSentinel

\* lines 243-248
MapOrgUnit(it, ou_map) ==
    IF Get(it, "orgUnit") \in DOMAIN ou_map
      THEN Put(it, "orgUnit", ou_map[Get(it, "orgUnit")])
      ELSE it

PlaceholderEmail == <<"invalid_fixed", "@", "example", ".", "com">>
PlaceholderPhone == <<"0000000000">>
AlphaTokens == {"bad", "a", "b", "com", "abc", "invalid_fixed", "example"}

\* line 256: `'@' not in val`
LacksAt_always(val) == TRUE
LacksAt(val) == ~(\E i \in 1..Len(val) : val[i] = "@")

\* line 261: `any(c.isalpha() for c in val)`
HasAlpha(val) == \E i \in 1..Len(val) : val[i] \in AlphaTokens

\* lines 251-263: email and phone fixups; `value` defaults to ''
FixValue(it, de_rules) ==
    IF Get(it, "dataElement") \in DOMAIN de_rules
      THEN LET rule == de_rules[Get(it, "dataElement")]
               val == IF "value" \in DOMAIN it THEN it.value ELSE <<>>
           IN IF Flag(rule, "fix_email")
                THEN IF LacksAt(val)
                       THEN Put(it, "value", PlaceholderEmail) ELSE it
                ELSE IF Flag(rule, "fix_phone")
                       THEN IF HasAlpha(val)
                              THEN Put(it, "value", PlaceholderPhone) ELSE it
                       ELSE it
      ELSE it

\* lines 232-265 for one item: the item as left in the caller's list (rewritten in
\* place, also when it is skipped) and whether it is appended to `sanitized`
SanitizeItem(it, m) ==
    LET coc_map == GetDict(m, "categoryOptionCombo")
        de_rules == GetDict(m, "dataElement")
        ou_map == GetDict(m, "orgUnit")
        a == MapCombos(it, coc_map)
    IN IF Dropped(a, ou_map)
         THEN [item |-> a, kept |-> FALSE]
         ELSE [item |-> FixValue(MapOrgUnit(a, ou_map), de_rules), kept |-> TRUE]

RECURSIVE KeptItems(_)
KeptItems(rs) ==
    IF rs = <<>> THEN <<>>
    ELSE (IF Head(rs).kept THEN <<Head(rs).item>> ELSE <<>>) \o KeptItems(Tail(rs))

\* lines 222-266: raises at line 227 when the loaded JSON value is not a dict;
\* otherwise the caller's records after the in-place rewrite, and the list returned
_sanitize_batch(b, file) ==
    LET loaded == _load_mappings(file)
        rs == [i \in 1..Len(b) |-> SanitizeItem(b[i], loaded.value)]
    IN IF ~loaded.is_dict
         THEN [raised |-> TRUE, in_place |-> b, sanitized |-> <<>>]
         ELSE [raised |-> FALSE,
               in_place |-> [i \in 1..Len(b) |-> rs[i].item],
               sanitized |-> KeptItems(rs)]

---------------------------------------------------------------------------
(* DHIS2Client._parse_response *)

\* counts.get(key, 0)
GetCount(d, key) == IF key \in DOMAIN d THEN d[key] ELSE 0

\* seq[:n]
Take_all(seq, n) == seq
Take(seq, n) == SubSeq(seq, 1, IF Len(seq) < n THEN Len(seq) ELSE n)

\* values of a JSON list: strings, and objects with the keys DHIS2 gives a conflict
JsonString(text) == [type |-> "string", text |-> text]
JsonObject(object, value) == [type |-> "object", object |-> object, value |-> value]

\* line 326: str(c), the string itself or the repr of the dict
Str(c) ==
    IF c.type = "string"
      THEN c.text
      ELSE <<"{", "'object'", ":">> \o c.object \o <<",", "'value'", ":">> \o c.value
             \o <<"}">>

\* line 326: [str(c) for c in ...]
StrAll(seq) == [i \in 1..Len(seq) |-> Str(seq[i])]

\* line 329: `status == 'ERROR' and total_success == 0`
IsHardFailure_any_error(status, total_success) == status = <<"ERROR">>
IsHardFailure(status, total_success) == status = <<"ERROR">> /\ total_success = 0

\* line 351: `status == 'OK'`
BundleOk_not_error(status) == status # <<"ERROR">>
BundleOk(status) == status = <<"OK">>

ConflictLimit == 5

\* lines 306-357; JSON strings are token sequences, JSON objects are functions
_parse_response(response_json) ==
    IF "importCount" \in DOMAIN response_json
      THEN LET counts == response_json.importCount
               ignored == GetCount(counts, "ignored")
               imported == GetCount(counts, "imported")
               updated == GetCount(counts, "updated")
               deleted == GetCount(counts, "deleted")
               \* response_json.get('status'): None compares like a string that
               \* is neither 'ERROR' nor 'OK'
               status == IF "status" \in DOMAIN response_json
                           THEN response_json.status ELSE <<>>
               is_error == status = <<"ERROR">>
               total_success == imported + updated + deleted
               total_processed == total_success + ignored
               conflicts == IF "conflicts" \in DOMAIN response_json
                              THEN Take(StrAll(response_json.conflicts), ConflictLimit)
                              ELSE <<>>
           IN IF IsHardFailure(status, total_success)
                THEN ImportResult(FALSE, 200,
                        <<"HARD", "FAILURE", ".", "All", ToString(total_processed),
                          "records", "rejected", ".">>, conflicts)
                ELSE IF ignored > 0 /\ total_success > 0
                  THEN ImportResult(TRUE, 200,
                          <<"Partial", "Success", ".", "Imp", ":", ToString(imported),
                            "Upd", ":", ToString(updated), "Ign", ":", ToString(ignored)>>,
                          conflicts)
                ELSE IF ignored > 0 /\ total_success = 0 /\ ~is_error
                  THEN ImportResult(TRUE, 200,
                          <<"All", ToString(ignored), "records", "already", "exist",
                            "(", "duplicates", ")", ".", "No", "update", "needed", ".">>,
                          conflicts)
                ELSE ImportResult(TRUE, 200,
                          <<"Success", ".", "Imp", ":", ToString(imported),
                            "Upd", ":", ToString(updated), "Del", ":", ToString(deleted)>>,
                          <<>>)
      ELSE IF "status" \in DOMAIN response_json /\ "bundleReport" \in DOMAIN response_json
        THEN IF BundleOk(response_json.status)
               THEN ImportResult(TRUE, 200,
                       <<"Tracker", "Bundle", "Imported", "Successfully">>, <<>>)
               ELSE ImportResult(FALSE, 200,
                       <<"Tracker", "Error", ":">> \o response_json.status, <<>>)
        ELSE ImportResult(TRUE, 200,
                <<"Request", "received", "(", "parsing", "unavailable", ")">>, <<>>)

---------------------------------------------------------------------------
(* Observations: history kept about the batch in progress and about the run *)

NoObs ==
    [outcome |-> "None",     \* state of the batch in progress (section 4.5 of the design)
     sends |-> 0,            \* send_batch calls made for it
     net_fails |-> 0,        \* results returned for it that carry the network marker
     data_fails |-> 0,       \* other failure results returned for it
     retry_waits |-> 0,      \* ticks run has slept before retransmitting it
     rate_slept |-> 0,       \* ticks run slept at line 517 after the batch before this one
     pauses |-> 0,           \* sleeps of line 517 the run has taken
     via |-> 0,              \* source line of the return statement that produced `result`,
                             \* kept as long as `result` is
     polls |-> 0,            \* GETs that found the job still running, in the polling in
                             \* progress
     mappings_read |-> NoFile,   \* mappings.json as the last _load_mappings call found it
     mappings_prev |-> NoFile,   \* and as the call before that one found it
     base |-> [records |-> 0, batches |-> 0, failed |-> 0],  \* counters when it was fetched
     abort |-> "none",       \* what raised into run's try block
     fetched |-> 0,          \* batches the run received from the batcher
     delivered |-> 0,        \* batches whose send returned success
     skipped |-> 0,          \* batches left after a failure
     uploaded |-> 0,         \* records of the delivered batches, as yielded
     sent_len |-> 0,         \* records in the payload of the latest POST of the batch in
                             \* progress
     posted |-> 0]           \* records in the payloads of the POSTs whose send returned
                             \* success

\* a failure result whose message carries the marker
NetworkClass(res) == ~res.success /\ Contains(res.message, NetworkMarker)

ObsReturn(res, via) ==
    [obs EXCEPT !.via = via,
                !.polls = 0,
                !.net_fails = IF NetworkClass(res) THEN @ + 1 ELSE @,
                !.data_fails = IF ~res.success /\ ~NetworkClass(res) THEN @ + 1 ELSE @]

---------------------------------------------------------------------------
(* DHIS2Client.send_batch *)

MaxNetFails == 2    \* network-class failures the remote side produces per batch
\* response.text, str(e), and the free-text strings of a response body: one without
\* the words of the marker, one with them in another order, one that is the marker
RemoteTexts == {<<"refused">>, <<"Error", "Connection/Network">>, NetworkMarker}

\* the frame of send_batch (and of _poll_tracker_job) is gone once the call is left
FrameDropped ==
    /\ payload' = <<>>
    /\ elapsed' = 0
    /\ backoff' = 0
    /\ max_wait' = 0

\* send_batch returns `res` to run (the remote side produces at most MaxNetFails
\* network-class failures per batch)
SinkReturn(res, via) ==
    /\ NetworkClass(res) => obs.net_fails < MaxNetFails
    /\ result' = res
    /\ pc' = "check"
    /\ obs' = ObsReturn(res, via)
    /\ FrameDropped

\* line 269: `if self.config.dry_run:`
IsDryRun_never(cfg) == FALSE
IsDryRun(cfg) == cfg.dry_run

\* lines 269-271
send_batch_dry_run ==
    /\ pc = "send"
    /\ IsDryRun(config)
    /\ result' = ImportResult(TRUE, 200, <<"Dry", "Run", "Success">>, <<>>)
    /\ pc' = "check"
    /\ obs' = [ObsReturn(result', 271) EXCEPT !.sends = @ + 1]
    /\ UNCHANGED <<gvars, cvars, svars, exc, summaries,
                   batch, batch_len, total_records, total_batches, failed_batches>>

\* lines 273-276: sanitize (in place) and build the payload; an exception raised
\* here is outside the try block of line 278 and leaves send_batch
send_batch_sanitize ==
    /\ pc = "send"
    /\ ~IsDryRun(config)
    /\ LET s == _sanitize_batch(batch, mapping_file)
       IN IF s.raised
            THEN /\ pc' = "except"
                 /\ exc' = "Exception"
                 /\ obs' = [obs EXCEPT !.sends = @ + 1, !.abort = "send_batch",
                                       !.outcome = "Aborted",
                                       !.mappings_prev = obs.mappings_read,
                                       !.mappings_read = mapping_file]
                 /\ UNCHANGED <<batch, payload>>
            ELSE /\ pc' = "post"
                 /\ batch' = s.in_place
                 /\ payload' = s.sanitized
                 /\ obs' = [obs EXCEPT !.sends = @ + 1,
                                       !.sent_len = Len(s.sanitized),
                                       !.mappings_prev = obs.mappings_read,
                                       !.mappings_read = mapping_file]
                 /\ UNCHANGED exc
    /\ UNCHANGED <<gvars, cvars, elapsed, backoff, max_wait, summaries,
                   batch_len, total_records, total_batches, failed_batches, result>>

\* line 290-291: an async tracker response carrying a job id
HasJobId(cfg, json) ==
    /\ cfg.endpoint_type = "tracker" /\ cfg.async_tracker
    /\ "response" \in DOMAIN json
    /\ "id" \in DOMAIN json.response

\* line 302
NetworkError_plain(text) == ImportResult(FALSE, 0, text, <<>>)
NetworkError(text) ==
    ImportResult(FALSE, 0, <<"Connection/Network", "Error", ":">> \o text, <<>>)

\* line 282: `400 <= response.status_code < 500`
IsClientError_400_only(code) == code = 400
IsClientError(code) == 400 <= code /\ code < 500

\* line 286: `200 <= response.status_code < 300`
IsSuccessStatus(code) == 200 <= code /\ code < 300

\* line 299: raise_for_status() raises for 4xx and 5xx
RaisesForStatus(code) == 400 <= code /\ code < 600

\* lines 278-304 for one outcome `r` of session.post: the statement that ends the
\* call (`via`), and the result unless it is the call of _poll_tracker_job
PostResult(cfg, r) ==
    IF r.kind = "exception"
      THEN [via |-> 302, result |-> NetworkError(r.text)]
    ELSE IF IsClientError(r.status_code)
      THEN [via |-> 283,
            result |-> ImportResult(FALSE, r.status_code,
                                    <<"Client", "Error", ":">> \o r.text, <<>>)]
    ELSE IF IsSuccessStatus(r.status_code)
      THEN IF ~r.parseable
             THEN \* response.json() raises
                  [via |-> 302, result |-> NetworkError(<<"Expecting", "value">>)]
             ELSE IF HasJobId(cfg, r.json)
                    THEN [via |-> 294, result |-> NoResult]
                    ELSE [via |-> 297, result |-> _parse_response(r.json)]
    ELSE IF RaisesForStatus(r.status_code)
      THEN \* raise_for_status() raises HTTPError
           [via |-> 302,
            result |-> NetworkError(<<ToString(r.status_code), "Server", "Error", ":">>
                                        \o r.text)]
      ELSE [via |-> 304, result |-> ImportResult(FALSE, 0, <<"Unknown", "State">>, <<>>)]

DefaultMaxWaitSeconds == 300
MaxBackoffSeconds == 10

\* statuses whose handling reads response.text or the reason phrase, and the others
ErrorStatusCodes == {400, 408, 500}
PlainStatusCodes == {101, 200, 302}

\* what response.json() gives for the bodies the remote side sends
PostBodies ==
    {[importCount |-> [imported |-> i, updated |-> 0, ignored |-> g, deleted |-> 0],
      status |-> st, conflicts |-> <<JsonString(<<"c1">>)>>]
        : i \in 0..1, g \in 0..1, st \in {<<"SUCCESS">>, <<"ERROR">>}}
      \cup {[status |-> st, bundleReport |-> <<"report">>]
              : st \in {<<"OK">>, <<"ERROR">>} \cup RemoteTexts}
      \cup {[response |-> [id |-> "job1"]], [httpStatus |-> <<"OK">>]}

PostOutcomes ==
    {[kind |-> "exception", status_code |-> 0, text |-> t, parseable |-> FALSE,
      json |-> EmptyDict] : t \in RemoteTexts}
      \cup {[kind |-> "response", status_code |-> c, text |-> t, parseable |-> FALSE,
             json |-> EmptyDict] : c \in ErrorStatusCodes, t \in RemoteTexts}
      \cup {[kind |-> "response", status_code |-> c, text |-> <<>>, parseable |-> FALSE,
             json |-> EmptyDict] : c \in PlainStatusCodes}
      \cup {[kind |-> "response", status_code |-> 200, text |-> <<>>, parseable |-> TRUE,
             json |-> j] : j \in PostBodies}

\* no POST answered yet
NoResponse ==
    [kind |-> "none", status_code |-> 0, text |-> <<>>, parseable |-> FALSE,
     json |-> EmptyDict]

\* lines 169, 182-183: _poll_tracker_job is entered with `max_wait` = mw ticks
PollEntry(mw) ==
    /\ pc' = "poll"
    /\ elapsed' = 0
    /\ backoff' = 1 * TicksPerSecond
    /\ max_wait' = mw

\* lines 278-304 when session.post gives `r`, and lines 179-183 when the job is polled
PostStep(r) ==
    /\ pc = "post"
    /\ LET p == PostResult(config, r)
       IN IF p.via = 294
            THEN /\ PollEntry(DefaultMaxWaitSeconds * TicksPerSecond)
                 /\ UNCHANGED <<result, obs>>
                 /\ UNCHANGED payload
            ELSE SinkReturn(p.result, p.via)
    /\ UNCHANGED <<gvars, cvars, exc, summaries,
                   batch, batch_len, total_records, total_batches, failed_batches>>

\* the POST of send_batch, answered by the remote side in any of the ways it can
send_batch_post == \E r \in PostOutcomes : PostStep(r)

---------------------------------------------------------------------------
(* DHIS2Client._poll_tracker_job *)

Min(a, b) == IF a < b THEN a ELSE b

\* line 201: min(backoff * 1.5, 10); exact in ticks for every value below the cap
NextBackoff_uncapped(b) == (b * 3) \div 2
NextBackoff(b) == Min((b * 3) \div 2, MaxBackoffSeconds * TicksPerSecond)

JobStatuses == {<<"COMPLETED">>, <<"ERROR">>, <<"RUNNING">>, <<"PENDING">>, <<"SCHEDULED">>}

\* str(e) and response.text of a failed GET: with and without the marker
JobErrorTexts == {<<"refused">>, NetworkMarker}

\* a status with or without a message, or no status at all
JobBodies ==
    {[status |-> st] : st \in JobStatuses}
      \cup {[status |-> <<"ERROR">>, message |-> t] : t \in JobErrorTexts}
      \cup {[id |-> "job1"]}

JobOutcomes ==
    {[kind |-> "exception", status_code |-> 0, text |-> t, parseable |-> FALSE,
      json |-> EmptyDict] : t \in JobErrorTexts}
      \cup {[kind |-> "response", status_code |-> 404, text |-> t, parseable |-> FALSE,
             json |-> EmptyDict] : t \in JobErrorTexts}
      \cup {[kind |-> "response", status_code |-> 200, text |-> <<>>, parseable |-> FALSE,
             json |-> EmptyDict]}
      \cup {[kind |-> "response", status_code |-> 200, text |-> <<>>, parseable |-> TRUE,
             json |-> j] : j \in JobBodies}

\* lines 186-207 for one outcome `g` of session.get: the statement that ends the
\* iteration; `via` 199 is the sleep that keeps the loop going
PollResult(g) ==
    IF g.kind = "exception"
      THEN [via |-> 207,
            result |-> ImportResult(FALSE, 0,
                          <<"Error", "polling", "tracker", "job", ":">> \o g.text, <<>>)]
    ELSE IF g.status_code # 200
      THEN [via |-> 205,
            result |-> ImportResult(FALSE, g.status_code,
                          <<"Failed", "to", "poll", "job", ":">> \o g.text, <<>>)]
    ELSE IF ~g.parseable
      THEN [via |-> 207,
            result |-> ImportResult(FALSE, 0,
                          <<"Error", "polling", "tracker", "job", ":",
                            "Expecting", "value">>, <<>>)]
    ELSE LET status == IF "status" \in DOMAIN g.json THEN g.json.status ELSE <<"RUNNING">>
         IN IF status = <<"COMPLETED">>
              THEN [via |-> 193,
                    result |-> ImportResult(TRUE, 200,
                                  <<"Tracker", "job", "completed", "successfully">>, <<>>)]
            ELSE IF status = <<"ERROR">>
              THEN [via |-> 196,
                    result |-> ImportResult(FALSE, 200,
                                  <<"Tracker", "job", "failed", ":">>
                                    \o (IF "message" \in DOMAIN g.json
                                          THEN g.json.message
                                          ELSE <<"Unknown", "error">>), <<>>)]
            ELSE IF status \in {<<"RUNNING">>, <<"PENDING">>}
              THEN [via |-> 199, result |-> NoResult]
              ELSE [via |-> 203,
                    result |-> ImportResult(FALSE, 200,
                                  <<"Unknown", "tracker", "job", "status", ":">> \o status,
                                  <<>>)]

\* line 185
PollAgain_inclusive(e, mw) == e <= mw
PollAgain(e, mw) == e < mw

\* lines 185-207: one iteration of the polling loop
poll_get ==
    /\ pc = "poll"
    /\ PollAgain(elapsed, max_wait)
    /\ \E g \in JobOutcomes :
         LET p == PollResult(g)
         IN IF p.via = 199
              THEN /\ elapsed' = elapsed + backoff
                   /\ backoff' = NextBackoff(backoff)
                   /\ obs' = [obs EXCEPT !.polls = @ + 1]
                   /\ UNCHANGED <<pc, result, payload, max_wait>>
              ELSE SinkReturn(p.result, p.via)
    /\ UNCHANGED <<gvars, cvars, exc, summaries,
                   batch, batch_len, total_records, total_batches, failed_batches>>

\* line 209: the loop condition fails
poll_timeout ==
    /\ pc = "poll"
    /\ ~PollAgain(elapsed, max_wait)
    /\ SinkReturn(ImportResult(FALSE, 0,
                     <<"Tracker", "job", "timeout", "after",
                       ToString(max_wait \div TicksPerSecond), "s">>, <<>>), 209)
    /\ UNCHANGED <<gvars, cvars, exc, summaries,
                   batch, batch_len, total_records, total_batches, failed_batches>>

---------------------------------------------------------------------------
(* MigrationService.run *)

RetryWaitSeconds == 10

\* line 499: `"Connection/Network Error" in result.message`
IsNetworkError_never(message) == FALSE
IsNetworkError_always(message) == TRUE
IsNetworkError(message) == Contains(message, NetworkMarker)

\* lines 519-522: the except clauses of run
Caught_ExceptionOnly(e) == e = "Exception"
Caught(e) == e \in {"KeyboardInterrupt", "Exception"}

\* line 525: what print_summary is called with
Summary(batches, recs, failures) ==
    [batches |-> batches, records |-> recs, failures |-> failures]

\* lines 471-477
run_begin ==
    /\ pc = "init"
    /\ total_records' = 0
    /\ total_batches' = 0
    /\ failed_batches' = 0
    /\ pc' = "for"
    /\ UNCHANGED <<gvars, cvars, svars, exc, summaries, obs, batch, batch_len, result>>

\* lines 480-482: the batcher has yielded the next batch
run_for_body ==
    /\ pc = "body"
    /\ batch' = gen_out
    /\ total_batches' = total_batches + 1
    /\ batch_len' = Len(gen_out)
    /\ pc' = "send"
    /\ obs' = [obs EXCEPT !.outcome = "Pending", !.rate_slept = 0,
                          !.base = [records |-> total_records,
                                    batches |-> total_batches,
                                    failed |-> failed_batches],
                          !.fetched = @ + 1]
    /\ UNCHANGED <<gvars, cvars, svars, exc, summaries,
                   total_records, failed_batches, result>>

\* lines 492-513: act on the result of the send
run_check_result ==
    /\ pc = "check"
    /\ IF result.success
         THEN \* lines 493-496
              /\ total_records' = total_records + batch_len
              /\ pc' = "delay"
              /\ obs' = [obs EXCEPT !.outcome = "Delivered", !.delivered = @ + 1, !.via = 0,
                                    !.uploaded = @ + Len(yielded[Len(yielded)]),
                                    !.posted = @ + obs.sent_len]
              /\ UNCHANGED failed_batches
         ELSE IF IsNetworkError(result.message)
           THEN \* lines 501-503
                /\ pc' = "retry_sleep"
                /\ obs' = [obs EXCEPT !.retry_waits = @ + RetryWaitSeconds * TicksPerSecond]
                /\ UNCHANGED <<total_records, failed_batches>>
           ELSE \* lines 507-513
                /\ failed_batches' = failed_batches + 1
                /\ pc' = "delay"
                /\ obs' = [obs EXCEPT !.outcome = "SkippedAfterFailure", !.skipped = @ + 1,
                                      !.via = 0]
                /\ UNCHANGED total_records
    /\ result' = NoResult   \* not read again before line 490 assigns it
    /\ UNCHANGED <<gvars, cvars, svars, exc, summaries, batch, batch_len, total_batches>>

\* line 504: `continue` is inside the `while True` of line 485, so control goes back
\* to line 490 with the same batch, not to the for statement
RetryTarget_next_batch == "for"
RetryTarget == "send"

\* line 504: the sleep is over, `continue` sends the same batch again
run_retry ==
    /\ pc = "retry_sleep"
    /\ pc' = RetryTarget
    /\ obs' = [obs EXCEPT !.via = 0]
    /\ UNCHANGED <<gvars, cvars, rvars, svars, exc, summaries>>

\* line 516: `hasattr(self.sink, 'config') and self.sink.config.inter_batch_delay > 0`
RateLimited_tracker_only(cfg) == cfg.endpoint_type = "tracker" /\ cfg.inter_batch_delay > 0
RateLimited(cfg) == cfg.inter_batch_delay > 0

\* lines 516-517, then back to the for statement
run_rate_limit ==
    /\ pc = "delay"
    /\ pc' = "for"
    /\ obs' = [obs EXCEPT !.outcome = "None", !.sends = 0, !.net_fails = 0,
                          !.data_fails = 0, !.retry_waits = 0, !.via = 0,
                          !.base = NoObs.base, !.sent_len = 0,
                          !.pauses = IF RateLimited(config) THEN @ + 1 ELSE @,
                          !.rate_slept = IF RateLimited(config)
                                           THEN config.inter_batch_delay ELSE 0]
    /\ UNCHANGED <<gvars, cvars, rvars, svars, exc, summaries>>

\* the blocking calls inside the try block of lines 479-517: reading the file (480),
\* send_batch (490: mappings file, POST, job polling and its sleeps), the sleeps of
\* lines 503 and 517
Blocking == {"for", "send", "post", "poll", "retry_sleep", "delay"}

\* Ctrl-C while the try block is in a blocking call
interrupt ==
    /\ pc \in Blocking
    /\ exc' = "KeyboardInterrupt"
    /\ pc' = "except"
    /\ obs' = [obs EXCEPT !.abort = "interrupt", !.polls = 0,
                          !.outcome = IF @ = "Pending" THEN "Aborted" ELSE @]
    /\ FrameDropped
    /\ UNCHANGED <<gvars, cvars, rvars, summaries>>

\* lines 105-118: stream_data raises (missing file, corrupt JSON) when asked for an item
stream_data_raises ==
    /\ pc = "for" /\ gpc = "loop"
    /\ gpc' = "done"
    /\ exc' = "Exception"
    /\ pc' = "except"
    /\ obs' = [obs EXCEPT !.abort = "source"]
    /\ UNCHANGED <<records, item, current_batch, current_ou, gen_out, yielded,
                   cvars, rvars, svars, summaries>>

\* lines 478, 519-523: the try statement encloses the for loop, so a handler that has
\* run is followed by the finally clause, not by the next iteration
ExceptTarget_inside_loop == "for"
ExceptTarget == "finally"

\* lines 519-522
run_except ==
    /\ pc = "except"
    /\ exc' = IF Caught(exc) THEN "none" ELSE exc
    /\ pc' = ExceptTarget
    /\ UNCHANGED <<gvars, cvars, rvars, svars, summaries, obs>>

\* lines 523-525, reached from the end of the loop or from an exception
run_finally ==
    /\ pc \in {"exhausted", "finally"}
    /\ summaries' = Append(summaries, Summary(total_batches, total_records, failed_batches))
    /\ pc' = IF exc = "none" THEN "returned" ELSE "propagated"
    /\ UNCHANGED <<gvars, cvars, rvars, svars, exc, obs>>

---------------------------------------------------------------------------
(* The run *)

MaxRunRecords == 2  \* longest input file of a run
MaxRunCap == 2      \* largest batch size of a run

\* ticks; 16 is the 0.5 s of main()
InterBatchDelays == {0, 16}

\* lines 516-517 do not read the endpoint type: the delay is varied for one of them
Configs ==
    {c \in [dry_run : BOOLEAN, endpoint_type : {"tracker", "aggregate"},
            async_tracker : {TRUE}, inter_batch_delay : InterBatchDelays] :
        c.endpoint_type = "tracker" => c.inter_batch_delay > 0}

MappingFiles ==
    {[kind |-> "absent", value |-> EmptyDict],
     [kind |-> "unreadable", value |-> EmptyDict],
     [kind |-> "array", value |-> EmptyDict],
     [kind |-> "object", value |-> [orgUnit |-> [ouA |-> "ouB", ouB |-> DropSentinel]]]}

RunRecords == {[orgUnit |-> o, value |-> <<"1">>] : o \in OrgUnits}

InitCommon ==
    /\ records = <<>>
    /\ gpc = "loop"
    /\ item = NoItem
    /\ current_batch = <<>>
    /\ current_ou = None
    /\ gen_out = <<>>
    /\ yielded = <<>>
    /\ batch = <<>>
    /\ batch_len = 0
    /\ total_records = 0
    /\ total_batches = 0
    /\ failed_batches = 0
    /\ result = NoResult
    /\ payload = <<>>
    /\ elapsed = 0
    /\ backoff = 0
    /\ max_wait = 0
    /\ exc = "none"
    /\ summaries = <<>>
    /\ obs = NoObs
    /\ rows = {}
    /\ row_count = 0
    /\ jobs = {}
    /\ running = FALSE

Init ==
    /\ InitCommon
    /\ pc = "init"
    /\ batch_size \in 1..MaxRunCap
    /\ config \in Configs
    /\ mapping_file \in MappingFiles
    /\ response = NoResponse

\* line 439: the source yields the next record of the file
stream_data_item ==
    /\ Len(records) < MaxRunRecords
    /\ \E it \in RunRecords : chunk_item(it)
    /\ UNCHANGED <<cvars, rvars, svars, exc, summaries, obs>>

Others == <<cvars, rvars, svars, exc, summaries, obs>>

resume_445 == chunk_resume_445 /\ UNCHANGED Others
resume_453 == chunk_resume_453 /\ UNCHANGED Others
exhausted == chunk_exhausted /\ UNCHANGED Others
resume_458 == chunk_resume_458 /\ UNCHANGED Others

Next ==
    \/ run_begin
    \/ stream_data_item
    \/ stream_data_raises
    \/ resume_445
    \/ resume_453
    \/ exhausted
    \/ resume_458
    \/ run_for_body
    \/ send_batch_dry_run
    \/ send_batch_sanitize
    \/ send_batch_post
    \/ poll_get
    \/ poll_timeout
    \/ run_check_result
    \/ run_retry
    \/ run_rate_limit
    \/ interrupt
    \/ run_except
    \/ run_finally

Spec == Init /\ [][Next]_vars

\* the steps the program takes by itself: everything but Ctrl-C and a fault of the
\* input file
ProgramStep ==
    \/ run_begin
    \/ stream_data_item
    \/ resume_445
    \/ resume_453
    \/ exhausted
    \/ resume_458
    \/ run_for_body
    \/ send_batch_dry_run
    \/ send_batch_sanitize
    \/ send_batch_post
    \/ poll_get
    \/ poll_timeout
    \/ run_check_result
    \/ run_retry
    \/ run_rate_limit
    \/ run_except
    \/ run_finally

\* every call and every sleep returns, and the interpreter goes on
SpecFair == Spec /\ WF_vars(ProgramStep)

---------------------------------------------------------------------------
(* The batcher on its own: a consumer that only iterates the generator *)

InitBatcher ==
    /\ InitCommon
    /\ pc = "for"
    /\ batch_size \in 1..MaxCap
    /\ config = [dry_run |-> TRUE, endpoint_type |-> "aggregate",
                 async_tracker |-> TRUE, inter_batch_delay |-> 0]
    /\ mapping_file = [kind |-> "absent", value |-> EmptyDict]
    /\ response = NoResponse

BatcherItem ==
    /\ Len(records) < MaxRecords
    /\ \E it \in Records : chunk_item(it)
    /\ UNCHANGED Others

\* `for batch in chunk_by_org_unit(...)`: the consumer takes the batch and asks for the next
BatcherConsume ==
    /\ pc = "body"
    /\ pc' = "for"
    /\ UNCHANGED <<gvars, Others>>

NextBatcher ==
    \/ BatcherItem
    \/ resume_445
    \/ resume_453
    \/ exhausted
    \/ resume_458
    \/ BatcherConsume

SpecBatcher == InitBatcher /\ [][NextBatcher]_vars

---------------------------------------------------------------------------
(* _parse_response on its own: one call on the body of a 2xx response *)

CountKeys == {"imported", "updated", "ignored", "deleted"}

\* importCount objects: every count given, or keys left out
ImportCounts ==
    [CountKeys -> 0..MaxCount]
      \cup {EmptyDict, [ignored |-> 1], [imported |-> 1, ignored |-> 1]}

SummaryStatuses == {<<"SUCCESS">>, <<"ERROR">>, <<"WARNING">>}

\* the i-th conflict DHIS2 reports: a string or an object
Conflict(i) ==
    IF i % 2 = 1
      THEN JsonString(<<"conflict", ToString(i)>>)
      ELSE JsonObject(<<"de", ToString(i)>>, <<"bad", "value">>)

ConflictLists ==
    {[i \in 1..n |-> Conflict(i)] : n \in 0..MaxConflicts}
      \cup {[i \in 1..n |-> Conflict(n + 1 - i)] : n \in 2..MaxConflicts}

WithStatuses(bodies) ==
    bodies \cup {Put(b, "status", st) : b \in bodies, st \in SummaryStatuses}

WithConflicts(bodies) ==
    bodies \cup {Put(b, "conflicts", c) : b \in bodies, c \in ConflictLists}

SummaryBodies == WithConflicts(WithStatuses({[importCount |-> c] : c \in ImportCounts}))

BundleStatuses == SummaryStatuses \cup {<<"OK">>, <<"ok">>, <<>>}

BundleBodies ==
    {[status |-> st, bundleReport |-> <<"report">>] : st \in BundleStatuses}
      \cup {[status |-> st, bundleReport |-> <<"report">>,
              conflicts |-> <<Conflict(1)>>] : st \in BundleStatuses}

\* bodies of neither shape
OtherBodies ==
    {EmptyDict, [httpStatus |-> <<"OK">>], [response |-> [id |-> "job1"]],
     [bundleReport |-> <<"report">>]}
      \cup {[status |-> st] : st \in BundleStatuses}

ParseBodies == SummaryBodies \cup BundleBodies \cup OtherBodies

JsonResponse(code, body) ==
    [kind |-> "response", status_code |-> code, text |-> <<>>, parseable |-> TRUE,
     json |-> body]

InitParse ==
    /\ InitCommon
    /\ pc = "parse"
    /\ batch_size = 1
    /\ config = [dry_run |-> FALSE, endpoint_type |-> "aggregate",
                 async_tracker |-> TRUE, inter_batch_delay |-> 0]
    /\ mapping_file = [kind |-> "absent", value |-> EmptyDict]
    /\ response \in {JsonResponse(200, b) : b \in ParseBodies}

\* line 297: `return self._parse_response(response_data)`
parse_response_call ==
    /\ pc = "parse"
    /\ result' = _parse_response(response.json)
    /\ pc' = "parsed"
    /\ UNCHANGED <<gvars, cvars, svars, exc, summaries, obs,
                   batch, batch_len, total_records, total_batches, failed_batches>>

NextParse == parse_response_call

SpecParse == InitParse /\ [][NextParse]_vars

---------------------------------------------------------------------------
(* send_batch on its own: one call, the answer to its POST fixed in advance *)

\* status codes at and next to the limits of lines 282, 286 and 299
SinkStatusCodes == {100, 199, 200, 204, 299, 300, 302, 399, 400, 404, 408, 499,
                    500, 503, 599, 600}

SinkBodies == PostBodies \cup OtherBodies

\* what session.post can give: an exception, a response with a body that is not
\* JSON, a response with a JSON body
SinkResponses ==
    {[kind |-> "exception", status_code |-> 0, text |-> t, parseable |-> FALSE,
      json |-> EmptyDict] : t \in RemoteTexts}
      \cup {[kind |-> "response", status_code |-> c, text |-> t, parseable |-> FALSE,
             json |-> EmptyDict] : c \in SinkStatusCodes, t \in RemoteTexts}
      \cup {JsonResponse(c, b) : c \in SinkStatusCodes, b \in SinkBodies}

\* the batches run can pass to send_batch
SinkBatches == UNION {[1..n -> RunRecords] : n \in 0..MaxRunCap}

InitSink ==
    /\ InitCommon
    /\ pc = "call"
    /\ batch_size = MaxRunCap
    /\ config \in Configs
    /\ mapping_file \in MappingFiles
    /\ response \in SinkResponses

\* line 490: send_batch is called with a batch
sink_call ==
    /\ pc = "call"
    /\ \E b \in SinkBatches :
         /\ batch' = b
         /\ batch_len' = Len(b)
    /\ pc' = "send"
    /\ obs' = [obs EXCEPT !.outcome = "Pending", !.fetched = 1]
    /\ UNCHANGED <<gvars, cvars, svars, exc, summaries,
                   total_records, total_batches, failed_batches, result>>

\* the POST of send_batch, answered with `response`
sink_post == PostStep(response)

NextSink ==
    \/ sink_call
    \/ send_batch_dry_run
    \/ send_batch_sanitize
    \/ sink_post
    \/ poll_get
    \/ poll_timeout

SpecSink == InitSink /\ [][NextSink]_vars

---------------------------------------------------------------------------
(* _poll_tracker_job on its own: one call, for any max_wait *)

\* values of the parameter max_wait, in ticks
MaxWaits ==
    {w * TicksPerSecond : w \in 0..MaxWaitSeconds}
      \cup {DefaultMaxWaitSeconds * TicksPerSecond}

InitPoll ==
    /\ InitCommon
    /\ pc = "poll_call"
    /\ batch_size = 1
    /\ config = [dry_run |-> FALSE, endpoint_type |-> "tracker",
                 async_tracker |-> TRUE, inter_batch_delay |-> 0]
    /\ mapping_file = [kind |-> "absent", value |-> EmptyDict]
    /\ response = NoResponse

\* line 294: `self._poll_tracker_job(job_id)`, or a call that passes max_wait
poll_call ==
    /\ pc = "poll_call"
    /\ \E mw \in MaxWaits : PollEntry(mw)
    /\ UNCHANGED <<gvars, cvars, rvars, payload, exc, summaries, obs>>

NextPoll ==
    \/ poll_call
    \/ poll_get
    \/ poll_timeout

SpecPoll == InitPoll /\ [][NextPoll]_vars

\* every GET returns, and the loop goes on
SpecPollFair == SpecPoll /\ WF_vars(NextPoll)

---------------------------------------------------------------------------
(* The sanitizing step of send_batch on its own: one call, up to the POST *)

\* strings a `value` can hold: no '@' and letters, an address, digits only,
\* digits and letters
SanitizeValues ==
    {<<"bad">>, <<"a", "@", "b", ".", "com">>, <<"0771234567">>, <<"0771", "abc">>}

\* data elements: under an email rule, a phone rule, a rule with both flags, a rule
\* with no flag set, and under no rule
DataElements == {"deEmail", "dePhone", "deBoth", "deOff", "dePlain"}

\* records that differ in the identifiers the sanitizer looks at
IdentifierRecords ==
    {[orgUnit |-> "ouA", categoryOptionCombo |-> "cocA", attributeOptionCombo |-> "cocA",
      value |-> <<"1">>],
     [orgUnit |-> "ouB", categoryOptionCombo |-> "cocA", value |-> <<"1">>],
     [orgUnit |-> "ouC", categoryOptionCombo |-> "cocC", attributeOptionCombo |-> "cocB",
      value |-> <<"1">>],
     [value |-> <<"1">>],
     [orgUnit |-> "ouB", dataElement |-> "deEmail", value |-> <<"bad">>],
     [orgUnit |-> "ouA", dataElement |-> "deEmail"],
     [orgUnit |-> "ouA", dataElement |-> "dePhone"]}

\* records that differ in data element and value
ValueRecords ==
    {[orgUnit |-> "ouA", dataElement |-> d, value |-> v] :
        d \in DataElements, v \in SanitizeValues}

\* a batch of the run: its records, each with its row number in a field the
\* sanitizer does not look at
Numbered(b) == [i \in 1..Len(b) |-> Put(b[i], "comment", i)]

SanitizeBatches ==
    {Numbered(b) :
        b \in UNION {[1..n -> IdentifierRecords \cup ValueRecords] : n \in 0..MaxSanitizeLen}}

DataElementRules ==
    [deEmail |-> [fix_email |-> TRUE],
     dePhone |-> [fix_phone |-> TRUE],
     deBoth |-> [fix_email |-> TRUE, fix_phone |-> TRUE],
     deOff |-> [fix_email |-> FALSE]]

\* mappings.json: absent, not JSON, a JSON array, every section present (with images that are
\* keys themselves), the rules only, and another org unit section only
SanitizeMappingFiles ==
    {[kind |-> "absent", value |-> EmptyDict],
     [kind |-> "unreadable", value |-> EmptyDict],
     [kind |-> "array", value |-> EmptyDict],
     [kind |-> "object",
      value |-> [categoryOptionCombo |-> [cocA |-> "cocB", cocB |-> "cocA"],
                 orgUnit |-> [ouA |-> "ouB", ouB |-> DropSentinel],
                 dataElement |-> DataElementRules]],
     [kind |-> "object", value |-> [dataElement |-> DataElementRules]],
     [kind |-> "object", value |-> [orgUnit |-> [ouA |-> "ouC", ouC |-> DropSentinel]]]}

InitSanitize ==
    /\ InitCommon
    /\ pc = "call"
    /\ batch_size = MaxSanitizeLen
    /\ config = [dry_run |-> FALSE, endpoint_type |-> "aggregate",
                 async_tracker |-> FALSE, inter_batch_delay |-> 0]
    /\ mapping_file \in SanitizeMappingFiles
    /\ response = NoResponse

\* line 490: send_batch is called with batch b
SanitizeEntry(b) ==
    /\ batch' = b
    /\ batch_len' = Len(b)
    /\ yielded' = <<b>>
    /\ pc' = "send"
    /\ obs' = [obs EXCEPT !.outcome = "Pending", !.fetched = @ + 1]
    /\ UNCHANGED <<records, gpc, item, current_batch, current_ou, gen_out, cvars, svars,
                   exc, summaries, total_records, total_batches, failed_batches, result>>

sanitize_call ==
    /\ pc = "call"
    /\ \E b \in SanitizeBatches : SanitizeEntry(b)

NextSanitize ==
    \/ sanitize_call
    \/ send_batch_sanitize

SpecSanitize == InitSanitize /\ [][NextSanitize]_vars

---------------------------------------------------------------------------
(* Successive send_batch calls of a run, up to the POST, with mappings.json
   rewritten or removed by its owner between two of them *)

\* records with an org unit and a value
ProbeRecords ==
    {r \in IdentifierRecords : "orgUnit" \in DOMAIN r /\ "value" \in DOMAIN r}

ProbeBatches ==
    {Numbered(b) : b \in UNION {[1..n -> ProbeRecords] : n \in 0..MaxRunCap}}

mappings_call ==
    /\ pc = "call"
    /\ obs.sends < MaxSends
    /\ \E b \in ProbeBatches : SanitizeEntry(b)

\* the rest of send_batch (lines 278-304), left out here: the call returns and
\* the run is done with the batch
mappings_return ==
    /\ pc = "post"
    /\ pc' = "call"
    /\ payload' = <<>>
    /\ batch' = <<>>
    /\ batch_len' = 0
    /\ yielded' = <<>>
    /\ UNCHANGED <<records, gpc, item, current_batch, current_ou, gen_out, cvars,
                   elapsed, backoff, max_wait, exc, summaries, obs,
                   total_records, total_batches, failed_batches, result>>

\* between two calls the owner of mappings.json rewrites or removes the file
mappings_edited ==
    /\ pc = "call"
    /\ obs.sends >= 1
    /\ mapping_file' \in SanitizeMappingFiles \ {mapping_file}
    /\ UNCHANGED <<pc, gvars, batch_size, config, response, schedvars, rvars, svars, exc,
                   summaries, obs>>

NextMappings ==
    \/ mappings_call
    \/ send_batch_sanitize
    \/ mappings_return
    \/ mappings_edited

SpecMappings == InitSanitize /\ [][NextMappings]_vars

---------------------------------------------------------------------------
(* The schedules of the web application: routes/schedules.py and scheduler.py *)

\* scheduler.py lines 134-137
JOB_RUNNERS == {"completeness", "transfer"}

\* job types a request can name; models_db.py also mentions "metadata", which has
\* no runner
JobTypes == JOB_RUNNERS \cup {"metadata"}

ScheduleNames == {"nightly", "weekly"}

\* cron expressions a request can carry; CronTrigger.from_crontab raises ValueError
\* unless the expression has five fields
Crons == {"0 2 * * *", "daily"}
CronValid(cron) == cron = "0 2 * * *"

\* scheduler.py lines 149-157: BackgroundScheduler.add_job with replace_existing=True
AddJob(js, row) ==
    {j \in js : j.id # row.id}
        \cup {[id |-> row.id, runner |-> row.job_type, cron |-> row.cron]}

\* scheduler.py lines 178-181: remove_job, a missing job being ignored
RemoveJob(js, id) == {j \in js : j.id # id}

\* scheduler.py lines 140-157: the scheduler's jobs afterwards, and whether line 144
\* raised
_schedule_db_job(row, js) ==
    IF row.job_type \notin JOB_RUNNERS \/ ~row.enabled
      THEN [raised |-> FALSE, jobs |-> js]
    ELSE IF ~CronValid(row.cron)
      THEN [raised |-> TRUE, jobs |-> js]
      ELSE [raised |-> FALSE, jobs |-> AddJob(js, row)]

\* scheduler.py lines 172-185, for a table `rs`
reschedule_job(job_id, rs, js) ==
    IF ~(\E r \in rs : r.id = job_id)
      THEN js
      ELSE LET row == CHOOSE r \in rs : r.id = job_id
           IN IF row.enabled
                THEN _schedule_db_job(row, RemoveJob(js, job_id)).jobs
                ELSE RemoveJob(js, job_id)

ScheduleUnchanged ==
    UNCHANGED <<pc, gvars, batch_size, config, mapping_file, response, rvars, svars, exc,
                summaries, obs>>

\* routes/schedules.py lines 51-88: POST /schedules with name, job_type and cron
\* present (a request without one of them is refused at line 56 and changes nothing)
upsert_schedule ==
    /\ pc = "serving"
    /\ \E name \in ScheduleNames, jt \in JobTypes, cron \in Crons, en \in BOOLEAN :
         LET found == {r \in rows : r.name = name}
             id == IF found = {} THEN row_count + 1 ELSE (CHOOSE r \in found : TRUE).id
             row == [id |-> id, name |-> name, job_type |-> jt, cron |-> cron,
                     enabled |-> en]
         IN /\ found = {} => row_count < MaxSchedules
            /\ rows' = {r \in rows : r.name # name} \cup {row}
            /\ row_count' = IF found = {} THEN row_count + 1 ELSE row_count
            /\ jobs' = reschedule_job(id, rows', jobs)
    /\ UNCHANGED running
    /\ ScheduleUnchanged

\* routes/schedules.py lines 91-102: DELETE /schedules/{job_id} for a row that
\* exists (for any other id line 97 answers 404 and changes nothing)
delete_schedule ==
    /\ pc = "serving"
    /\ \E row \in rows : rows' = rows \ {row}
    /\ UNCHANGED <<row_count, jobs, running>>
    /\ ScheduleUnchanged

\* scheduler.py lines 160-169: the query returns the enabled rows in some order, and
\* a row whose cron is refused at line 144 ends the loop
start_scheduler_and_load_jobs ==
    /\ pc = "serving"
    /\ running' = TRUE
    /\ LET enabled == {r \in rows : r.enabled}
           refused == {r \in enabled : _schedule_db_job(r, {}).raised}
           runnable == {r \in enabled \ refused : r.job_type \in JOB_RUNNERS}
       IN \E loaded \in SUBSET runnable :
            /\ refused = {} => loaded = runnable
            /\ jobs' = {j \in jobs : ~(\E r \in loaded : r.id = j.id)}
                         \cup {[id |-> r.id, runner |-> r.job_type, cron |-> r.cron] :
                                  r \in loaded}
    /\ UNCHANGED <<rows, row_count>>
    /\ ScheduleUnchanged

InitSchedules ==
    /\ InitCommon
    /\ pc = "serving"
    /\ batch_size = 1
    /\ config = [dry_run |-> TRUE, endpoint_type |-> "aggregate",
                 async_tracker |-> TRUE, inter_batch_delay |-> 0]
    /\ mapping_file = [kind |-> "absent", value |-> EmptyDict]
    /\ response = NoResponse

NextSchedules ==
    \/ upsert_schedule
    \/ delete_schedule
    \/ start_scheduler_and_load_jobs

SpecSchedules == InitSchedules /\ [][NextSchedules]_vars

---------------------------------------------------------------------------
(* Properties of Batcher.chunk_by_org_unit, checked under SpecBatcher *)

RECURSIVE Concat(_)
Concat(bs) == IF bs = <<>> THEN <<>> ELSE Head(bs) \o Concat(Tail(bs))

IsPrefix(p, q) == Len(p) <= Len(q) /\ SubSeq(q, 1, Len(p)) = p

OrgUnitOf(r) == Get(r, "orgUnit")

SameOrgUnit(rs) == \A i, j \in 1..Len(rs) : OrgUnitOf(rs[i]) = OrgUnitOf(rs[j])

\* C2: every batch yielded is non-empty and holds at most batch_size records, and
\* the batch in progress never holds more than batch_size records.
C2_BatchSizeWithinCap ==
    /\ \A i \in 1..Len(yielded) : Len(yielded[i]) >= 1 /\ Len(yielded[i]) <= batch_size
    /\ Len(current_batch) <= batch_size

\* a finished run that cut one batch at the cap and ended with a shorter one
C2_Witness ==
    /\ gpc = "done"
    /\ batch_size >= 2
    /\ \E i, j \in 1..Len(yielded) :
         Len(yielded[i]) = batch_size /\ Len(yielded[j]) < batch_size

\* C3: every batch yielded is homogeneous in orgUnit, a missing orgUnit being a
\* value of its own (so a record without orgUnit followed by one with an orgUnit
\* are in different batches).
C3_BatchesHomogeneous ==
    \A i \in 1..Len(yielded) : SameOrgUnit(yielded[i])

\* C4: the batches yielded so far, concatenated, are the records read so far minus
\* those still held back, in source order; once the generator has returned they are
\* the whole input.
C4_ConcatReproducesInput ==
    /\ IsPrefix(Concat(yielded), records)
    /\ gpc = "done" => Concat(yielded) = records

\* the input ended in a partial batch, which was yielded as the last batch
C4_Witness ==
    /\ gpc = "done"
    /\ Len(records) >= 3
    /\ Len(yielded) >= 2
    /\ Len(yielded[Len(yielded)]) < batch_size

\* C5: a stream whose orgUnit never changes is cut into ceil(total/cap) batches, all
\* of size cap except possibly the last.
C5_CeilBatches ==
    (gpc = "done" /\ SameOrgUnit(records)) =>
        /\ Len(yielded) = (Len(records) + batch_size - 1) \div batch_size
        /\ \A i \in 1..(Len(yielded) - 1) : Len(yielded[i]) = batch_size

\* five records of one org unit with cap 2: sizes 2, 2, 1
C5_Witness ==
    /\ gpc = "done"
    /\ SameOrgUnit(records)
    /\ Len(records) = 5
    /\ batch_size = 2
    /\ Len(yielded) = 3
    /\ Len(yielded[3]) = 1

\* the boundary after the i-th batch yielded is one the cap asks for
CapBoundary(i) == Len(yielded[i]) = batch_size

\* the boundary after the i-th batch yielded is one a change of org unit asks for
OrgUnitBoundary(i) ==
    OrgUnitOf(yielded[i][Len(yielded[i])]) # OrgUnitOf(yielded[i + 1][1])

\* C34: between any two consecutive batches yielded, the earlier one holds exactly
\* batch_size records or the org unit changes from its last record to the first
\* record of the later one.
C34_NoBoundaryWithoutCause ==
    \A i \in 1..(Len(yielded) - 1) : CapBoundary(i) \/ OrgUnitBoundary(i)

\* one boundary placed by the cap inside an org unit, one by a change of org unit
\* after a batch shorter than the cap
C34_Witness ==
    /\ gpc = "done"
    /\ Len(yielded) = 3
    /\ CapBoundary(1) /\ ~OrgUnitBoundary(1)
    /\ ~CapBoundary(2) /\ OrgUnitBoundary(2)

---------------------------------------------------------------------------
(* Properties of the run, checked under Spec *)

\* C1: no exception leaves DHIS2Client.send_batch.
C1_SendBatchNeverRaises == obs.abort # "send_batch"

RetryWait == RetryWaitSeconds * TicksPerSecond

LastYielded == yielded[Len(yielded)]

InProgress == obs.outcome \in {"Pending", "Delivered", "SkippedAfterFailure"}

\* C6: while every failure returned for a batch is network-class, the batch is never
\* skipped nor counted as failed, and counts once as processed; when a send then
\* succeeds the batch has been sent once more than it failed, after one 10 s wait
\* per failure, and its record count has been added once to the records uploaded.
C6_NetworkFailuresRetried ==
    (InProgress /\ obs.data_fails = 0) =>
        /\ obs.outcome # "SkippedAfterFailure"
        /\ failed_batches = obs.base.failed
        /\ total_batches = obs.base.batches + 1
        /\ obs.outcome = "Pending" =>
              /\ total_records = obs.base.records
              /\ obs.sends <= obs.net_fails + 1
        /\ obs.outcome = "Delivered" =>
              /\ obs.sends = obs.net_fails + 1
              /\ obs.retry_waits = obs.net_fails * RetryWait
              /\ total_records = obs.base.records + Len(LastYielded)

\* a batch delivered by its third send, after two network-class failures
C6_Witness ==
    /\ obs.outcome = "Delivered"
    /\ obs.net_fails = 2
    /\ obs.sends = 3
    /\ Len(LastYielded) = 2

AfterSend == {"check", "delay", "except", "finally", "returned", "propagated"}

\* C7: a batch whose send returns a non-network failure is sent exactly once, adds
\* one to the failed batches and nothing to the records uploaded, is never waited
\* on for a retry, and the run goes on to the for statement after sleeping the
\* inter-batch delay only.
C7_DataFailureSkippedOnce ==
    /\ []((obs.data_fails >= 1 /\ obs.net_fails = 0) =>
            /\ pc \in AfterSend
            /\ obs.sends = 1
            /\ obs.retry_waits = 0
            /\ total_records = obs.base.records
            /\ failed_batches =
                 obs.base.failed + (IF obs.outcome = "SkippedAfterFailure" THEN 1 ELSE 0)
            /\ pc = "delay" => obs.outcome = "SkippedAfterFailure")
    /\ [][(pc = "delay" /\ obs.outcome = "SkippedAfterFailure") =>
            \/ pc' = "except"
            \/ /\ pc' = "for"
               /\ obs'.rate_slept = config.inter_batch_delay
               /\ failed_batches' = failed_batches]_vars

\* the second batch is being sent after the first one was skipped on its only send
C7_Witness ==
    /\ pc = "send"
    /\ obs.fetched = 2
    /\ obs.skipped = 1
    /\ failed_batches = 1
    /\ total_records = 0

\* the return statements of a permanent failure: HTTP 4xx (283), a hard-failure
\* summary or a tracker bundle error (297, not success), a tracker job ERROR (196)
PermanentReturns == {283, 297, 196}

\* C8: a batch whose send ended in a permanent failure is not sent again, whatever
\* text the remote side put into its response.
C8_PermanentFailureNeverRetried ==
    pc = "retry_sleep" => obs.via \notin PermanentReturns

\* C9 as claimed: a batch that has received a network-class failure never ends in
\* SkippedAfterFailure.
C9_NeverSkippedAfterNetworkFailure ==
    ~(obs.outcome = "SkippedAfterFailure" /\ obs.net_fails > 0)

\* C9 as amended: a network-class failure always leads to the 10 s wait and to
\* another send of the same batch, however many have failed before; the retry loop
\* of a batch ends only by a send that succeeds (Delivered), by a send that returns a
\* non-network failure (SkippedAfterFailure), or by an interrupt or exception (Aborted).
C9_RetryLoopExits ==
    /\ [][(pc = "check" /\ NetworkClass(result)) =>
            /\ pc' = "retry_sleep"
            /\ obs'.outcome = "Pending"
            /\ batch' = batch
            /\ <<total_batches', total_records', failed_batches'>>
                 = <<total_batches, total_records, failed_batches>>]_vars
    /\ [][pc = "retry_sleep" =>
            \/ pc' = "except" /\ obs'.outcome = "Aborted"
            \/ pc' = "send" /\ batch' = batch /\ total_batches' = total_batches]_vars
    /\ [][(obs.outcome = "Pending" /\ obs.net_fails > 0 /\ obs'.outcome # "Pending") =>
            \/ obs'.outcome = "Delivered" /\ result.success
            \/ /\ obs'.outcome = "SkippedAfterFailure"
               /\ ~result.success
               /\ ~Contains(result.message, NetworkMarker)
            \/ obs'.outcome = "Aborted" /\ pc' = "except"]_vars

\* the batch is waiting for its third send after two network-class failures
C9_Witness ==
    /\ pc = "retry_sleep"
    /\ obs.net_fails = 2
    /\ obs.sends = 2
    /\ obs.outcome = "Pending"

Ended == {"returned", "propagated"}

\* C10: the summary is printed exactly once, when the run ends, with the batches
\* received, the records of the delivered batches and the batches skipped up to
\* then; the run then returns normally, whatever ended it.
C10_SummaryOnceThenReturn ==
    /\ pc \notin Ended => summaries = <<>>
    /\ pc \in Ended =>
          /\ pc = "returned"
          /\ exc = "none"
          /\ summaries = <<Summary(obs.fetched, obs.uploaded, obs.skipped)>>

\* the run returned after Ctrl-C during its second batch, the first one delivered
C10_Witness ==
    /\ pc = "returned"
    /\ obs.abort = "interrupt"
    /\ obs.fetched = 2
    /\ obs.delivered = 1
    /\ obs.outcome = "Aborted"

SinkStages == {"send", "post", "poll", "check", "retry_sleep"}

AfterAbort == {"except", "finally", "returned", "propagated"}

\* C11: once a KeyboardInterrupt or an exception has been raised inside the batch
\* loop (in a send, in the retry sleep, in the inter-batch sleep, or while the next
\* batch is read), send_batch is not called again: the batch in progress is not
\* retried and no further batch is fetched or sent.
C11_NoSendAfterAbort ==
    /\ [](obs.abort # "none" => pc \in AfterAbort)
    /\ [][obs.abort # "none" =>
            /\ pc' \in AfterAbort
            /\ obs'.sends = obs.sends
            /\ obs'.fetched = obs.fetched
            /\ obs'.outcome = obs.outcome
            /\ Len(yielded') = Len(yielded)]_vars

\* the run has ended after Ctrl-C in the retry sleep of its first batch, with input
\* left unread
C11_Witness ==
    /\ pc = "returned"
    /\ obs.abort = "interrupt"
    /\ obs.fetched = 1
    /\ obs.sends = 1
    /\ obs.net_fails = 1
    /\ obs.retry_waits = RetryWait
    /\ gpc # "done"

\* C12: the batches are handed to send_batch in the order the batcher yields them,
\* one at a time: a send_batch call starts either for the batch just yielded, all
\* batches before it being Delivered or SkippedAfterFailure, or (a retry) for the
\* batch of the call before; the batcher is never asked for a batch while one is
\* being sent.
C12_SinkFollowsBatcherOrder ==
    /\ [](pc \in SinkStages =>
            /\ obs.outcome = "Pending"
            /\ obs.fetched = Len(yielded)
            /\ obs.delivered + obs.skipped = obs.fetched - 1
            /\ total_batches = obs.fetched
            /\ batch_len = Len(LastYielded)
            /\ gpc \in {"y445", "y453", "y458"})
    /\ [][(pc # "send" /\ pc' = "send") =>
            \/ /\ pc = "body"
               /\ batch' = LastYielded
               /\ obs'.fetched = obs.fetched + 1
               /\ obs.delivered + obs.skipped = obs.fetched
               /\ obs.outcome = "None"
            \/ /\ pc = "retry_sleep"
               /\ batch' = batch
               /\ obs'.fetched = obs.fetched]_vars
    /\ [][Len(yielded') > Len(yielded) => (pc = "for" /\ obs.outcome = "None")]_vars

\* the second batch is being posted again after a network-class failure, the first
\* batch delivered
C12_Witness ==
    /\ pc = "post"
    /\ obs.fetched = 2
    /\ obs.delivered = 1
    /\ obs.sends = 2
    /\ obs.net_fails = 1

\* C13: when reading the input file fails (file missing, JSON truncated or malformed
\* at any position), the run aborts without any batch having been passed to the sink.
C13_CorruptInputNoSend ==
    obs.abort = "source" => (obs.fetched = 0 /\ yielded = <<>>)

\* C21: a send that got an HTTP 408 response returns a failure that carries the
\* network-error marker, and run waits and sends the batch again instead of
\* counting it as failed.
C21_Status408IsTransient ==
    [][(pc = "check" /\ result.status_code = 408) =>
         /\ NetworkClass(result)
         /\ pc' = "retry_sleep"
         /\ failed_batches' = failed_batches]_vars

\* C25: the result of a polling that ended in the timeout is a failure without the
\* network-error marker; run counts the batch as failed and goes on to the next
\* batch without sending it again.
C25_PollTimeoutIsSkipped ==
    /\ []((pc = "check" /\ obs.via = 209) =>
            /\ ~result.success
            /\ ~Contains(result.message, NetworkMarker)
            /\ result.message = <<"Tracker", "job", "timeout", "after", "300", "s">>)
    /\ [][(pc = "check" /\ obs.via = 209) =>
            /\ pc' = "delay"
            /\ obs'.outcome = "SkippedAfterFailure"
            /\ failed_batches' = failed_batches + 1
            /\ total_records' = total_records]_vars
    /\ [][(pc = "delay" /\ obs.outcome = "SkippedAfterFailure") =>
            pc' \in {"for", "except"}]_vars

\* the polling for the second batch has timed out, the first batch delivered
C25_Witness ==
    /\ pc = "check"
    /\ obs.via = 209
    /\ ~result.success
    /\ obs.fetched = 2
    /\ obs.delivered = 1
    /\ failed_batches = 0

\* C26: in a dry run every send returns success without any HTTP request, without
\* the mappings file being read and without a record of the batch being changed;
\* a dry run that reads its whole input ends with no failed batch and with as many
\* records uploaded as the input holds.
C26_DryRunSendsNothing ==
    config.dry_run =>
        /\ pc \notin {"post", "poll", "retry_sleep"}
        /\ obs.abort # "send_batch"
        /\ payload = <<>>
        /\ failed_batches = 0
        /\ obs.net_fails = 0 /\ obs.data_fails = 0
        /\ pc \in {"send", "check", "delay"} => batch = LastYielded
        /\ pc = "check" =>
              result = [success |-> TRUE, status_code |-> 200,
                        message |-> <<"Dry", "Run", "Success">>, conflicts |-> <<>>]
        /\ (pc = "returned" /\ obs.abort = "none") =>
              /\ total_records = Len(records)
              /\ obs.delivered = total_batches
              /\ summaries = <<Summary(total_batches, Len(records), 0)>>

\* a dry run of two batches has ended, with a mappings file that is not an object and
\* records whose org unit the file would rewrite
C26_Witness ==
    /\ config.dry_run
    /\ pc = "returned" /\ obs.abort = "none"
    /\ total_batches = 2
    /\ total_records = 2
    /\ mapping_file.kind = "array"

---------------------------------------------------------------------------
(* Properties of DHIS2Client._parse_response, checked under SpecParse *)

Body == response.json

Parsed == pc = "parsed"

SummaryShape == "importCount" \in DOMAIN Body

BundleShape ==
    /\ ~SummaryShape
    /\ "status" \in DOMAIN Body
    /\ "bundleReport" \in DOMAIN Body

Count(key) == IF key \in DOMAIN Body.importCount THEN Body.importCount[key] ELSE 0

TotalSuccess == Count("imported") + Count("updated") + Count("deleted")

StatusIs(st) == "status" \in DOMAIN Body /\ Body.status = st

StartsWith(message, prefix) ==
    Len(message) >= Len(prefix) /\ SubSeq(message, 1, Len(prefix)) = prefix

HardFailureCase == StatusIs(<<"ERROR">>) /\ TotalSuccess = 0
PartialCase == ~HardFailureCase /\ Count("ignored") > 0 /\ TotalSuccess > 0
AlreadyImportedCase ==
    Count("ignored") > 0 /\ TotalSuccess = 0 /\ ~StatusIs(<<"ERROR">>)
FullSuccessCase == ~HardFailureCase /\ ~PartialCase /\ ~AlreadyImportedCase

\* C14: for an import-summary body the result is a failure exactly when status is
\* ERROR and imported + updated + deleted is 0; otherwise it is a success: partial
\* success when ignored > 0 and something succeeded, already imported (the message
\* giving the ignored count) when ignored > 0, nothing succeeded and status is not
\* ERROR, full success in every other case.
C14_SummaryClassification ==
    (Parsed /\ SummaryShape) =>
        /\ result.status_code = 200
        /\ result.success <=> ~HardFailureCase
        /\ HardFailureCase => StartsWith(result.message, <<"HARD", "FAILURE">>)
        /\ PartialCase => StartsWith(result.message, <<"Partial", "Success">>)
        /\ AlreadyImportedCase =>
              StartsWith(result.message,
                         <<"All", ToString(Count("ignored")), "records", "already", "exist">>)
        /\ FullSuccessCase => StartsWith(result.message, <<"Success", ".">>)

\* a summary with status ERROR and one record imported was parsed
C14_Witness ==
    /\ Parsed /\ SummaryShape
    /\ StatusIs(<<"ERROR">>)
    /\ Count("imported") = 1 /\ Count("ignored") = 1
    /\ result.success

Min5(n) == IF n < 5 THEN n ELSE 5

\* the first min(5, |C|) conflicts of the body, each as the string str() gives
FirstConflicts ==
    [i \in 1..Min5(Len(Body.conflicts)) |-> Str(Body.conflicts[i])]

\* C15 as claimed: whatever branch classifies an import summary that carries a
\* conflicts list, the result's conflicts are the first min(5, |C|) entries of the
\* list in their order, and no result carries more than 5.
C15_ConflictsInEveryBranch ==
    /\ Parsed => Len(result.conflicts) <= 5
    /\ (Parsed /\ SummaryShape /\ "conflicts" \in DOMAIN Body) =>
          result.conflicts = FirstConflicts

\* C15 as amended: a hard failure, a partial success and an already-imported result
\* carry the first min(5, |C|) entries of the conflicts list, as strings, in their
\* order; a full-success result carries none, and neither does the result of a body
\* without a conflicts list or of another shape; no result carries more than 5.
C15_ConflictsExceptFullSuccess ==
    Parsed =>
        /\ Len(result.conflicts) <= 5
        /\ (SummaryShape /\ "conflicts" \in DOMAIN Body /\ ~FullSuccessCase) =>
              result.conflicts = FirstConflicts
        /\ (~SummaryShape \/ "conflicts" \notin DOMAIN Body \/ FullSuccessCase) =>
              result.conflicts = <<>>

\* a hard failure with six conflicts, the first of them the last one reported, was
\* parsed
C15_Witness ==
    /\ Parsed /\ SummaryShape /\ HardFailureCase
    /\ "conflicts" \in DOMAIN Body
    /\ Len(Body.conflicts) = 6
    /\ Body.conflicts[1] = Conflict(6)
    /\ Len(result.conflicts) = 5

\* C16: for a bundle-report body the result is a success exactly when status is OK;
\* otherwise it is a failure whose message carries the status.
C16_BundleClassification ==
    (Parsed /\ BundleShape) =>
        /\ result.status_code = 200
        /\ result.success <=> Body.status = <<"OK">>
        /\ ~result.success => result.message = <<"Tracker", "Error", ":">> \o Body.status

\* a bundle report with status WARNING was parsed
C16_Witness ==
    /\ Parsed /\ BundleShape
    /\ Body.status = <<"WARNING">>
    /\ ~result.success

---------------------------------------------------------------------------
(* Properties of DHIS2Client.send_batch, checked under SpecSink *)

\* send_batch has returned after a POST that got `response`
Returned == pc = "check" /\ ~config.dry_run

GotResponse == response.kind = "response"

Status == response.status_code

Is2xx == 200 <= Status /\ Status <= 299
Is4xx == 400 <= Status /\ Status <= 499

\* the async case: a tracker endpoint in async mode answered with a job id
JobIdCase ==
    /\ config.endpoint_type = "tracker" /\ config.async_tracker
    /\ response.parseable
    /\ "response" \in DOMAIN Body
    /\ "id" \in DOMAIN Body.response

\* a body of neither shape, be it JSON or not
NeitherShape ==
    \/ ~response.parseable
    \/ ~SummaryShape /\ ~("status" \in DOMAIN Body /\ "bundleReport" \in DOMAIN Body)

\* C17: a 2xx response, outside the async job-id case, whose body has neither the
\* import-summary nor the bundle-report shape gives a success result, whatever the
\* body is, a body that is not JSON included.
C17_UnrecognizedBodyIsSuccess ==
    (Returned /\ GotResponse /\ Is2xx /\ ~JobIdCase /\ NeitherShape) =>
        result.success

ClientErrorResult ==
    [success |-> FALSE, status_code |-> Status,
     message |-> <<"Client", "Error", ":">> \o response.text, conflicts |-> <<>>]

C19_OtherStatusIsNetworkError ==
    (Returned /\ GotResponse /\ ~Is2xx /\ ~Is4xx) =>
        (~result.success /\ Contains(result.message, NetworkMarker))

\* C20: an exception raised by the POST gives a failure result with status code 0
\* whose message is the "Connection/Network Error" marker followed by the text of
\* the exception.
C20_PostExceptionIsNetworkError ==
    (Returned /\ response.kind = "exception") =>
        /\ ~result.success
        /\ result.status_code = 0
        /\ Contains(result.message, NetworkMarker)
        /\ result.message = NetworkMarker \o <<":">> \o response.text
        /\ obs.via = 302

\* the POST of a batch of two records raised an exception whose text has no marker
C20_Witness ==
    /\ Returned /\ response.kind = "exception"
    /\ response.text = <<"refused">>
    /\ batch_len = 2
    /\ ~result.success

---------------------------------------------------------------------------
(* Properties of DHIS2Client._poll_tracker_job, checked under SpecPoll *)

\* the return statements of a job that reached COMPLETED (193) or ERROR (196), and
\* of the wait ceiling (209)
JobDecidedReturns == {193, 196, 209}

\* C22: a polling ends only by the job reaching COMPLETED, by the job reaching
\* ERROR, or by the maximum wait being reached; until then it continues.
C22_PollingEndsOnlyByJobOrTimeout ==
    pc = "check" => obs.via \in JobDecidedReturns

RECURSIVE Pow(_, _)
Pow(b, n) == IF n = 0 THEN 1 ELSE b * Pow(b, n - 1)

\* min(1.5^(k-1), 10) seconds, in ticks; 1.5^n grows with n and 1.5^8 > 10, so the
\* exponent can be cut at 8
SleepAfter(k) ==
    LET n == IF k - 1 < 8 THEN k - 1 ELSE 8
    IN IF Pow(3, n) >= 10 * Pow(2, n)
         THEN 10 * TicksPerSecond
         ELSE (Pow(3, n) * TicksPerSecond) \div Pow(2, n)

\* C23: the sleep after the k-th poll that finds the job PENDING or RUNNING is
\* min(1.5^(k-1), 10) seconds; the backoff starts at 1 s, never decreases and stays
\* between 1 s and 10 s.
C23_BackoffSchedule ==
    /\ [](pc = "poll" =>
            /\ backoff = SleepAfter(obs.polls + 1)
            /\ 1 * TicksPerSecond <= backoff
            /\ backoff <= 10 * TicksPerSecond
            /\ obs.polls = 0 => backoff = 1 * TicksPerSecond)
    /\ [][(pc = "poll" /\ pc' = "poll") =>
            /\ obs'.polls = obs.polls + 1
            /\ elapsed' - elapsed = SleepAfter(obs'.polls)
            /\ backoff' >= backoff]_vars

\* the job was found running seven times: the next sleep is the capped one
C23_Witness ==
    /\ pc = "poll"
    /\ obs.polls = 7
    /\ backoff = 10 * TicksPerSecond
    /\ elapsed < max_wait

TimeoutResult ==
    [success |-> FALSE, status_code |-> 0,
     message |-> <<"Tracker", "job", "timeout", "after",
                   ToString(max_wait \div TicksPerSecond), "s">>,
     conflicts |-> <<>>]

\* C24: a polling whose GETs all return ends, for every max_wait: every poll that
\* is not the last adds at least 1 s to the accumulated wait, no GET is issued once
\* the accumulated wait has reached max_wait (at most max_wait GETs, none when
\* max_wait is 0), and the result is then the timeout failure with status 0.
C24_PollingTerminates ==
    /\ [](pc = "poll" =>
            /\ elapsed >= obs.polls * TicksPerSecond
            /\ obs.polls * TicksPerSecond <= max_wait
            /\ elapsed < max_wait => (obs.polls + 1) * TicksPerSecond <= max_wait)
    /\ [][(pc = "poll" /\ pc' = "poll") => elapsed' >= elapsed + 1 * TicksPerSecond]_vars
    /\ [][(pc = "poll" /\ elapsed >= max_wait) =>
            /\ pc' = "check"
            /\ result' = TimeoutResult
            /\ obs'.via = 209]_vars
    /\ [][(pc = "poll" /\ pc' = "check" /\ obs'.via = 209) => elapsed >= max_wait]_vars
    /\ <>(pc = "check")

\* a polling with max_wait = 3 has ended in the timeout after three GETs
C24_Witness ==
    /\ pc = "check"
    /\ obs.via = 209
    /\ result.message = <<"Tracker", "job", "timeout", "after", "3", "s">>

---------------------------------------------------------------------------
(* Properties of DHIS2Client._sanitize_batch, checked under SpecSanitize, and of
   _load_mappings, checked under SpecMappings *)

\* send_batch has sanitized the batch it was given and is about to transmit it
Sanitized == pc = "post"

\* the batch as send_batch received it
Given == LastYielded

\* a section of mappings.json as the file stands
Section(name) ==
    IF mapping_file.kind = "object" /\ name \in DOMAIN mapping_file.value
      THEN mapping_file.value[name]
      ELSE EmptyDict

\* the record's orgUnit is mapped to the drop sentinel
MappedToSentinel(r) ==
    /\ "orgUnit" \in DOMAIN r
    /\ r.orgUnit \in DOMAIN Section("orgUnit")
    /\ Section("orgUnit")[r.orgUnit] = DropSentinel

\* rows of the given batch that are to be transmitted
KeptRows == {i \in 1..Len(Given) : ~MappedToSentinel(Given[i])}

\* the row each transmitted record came from
Rows == [j \in 1..Len(payload) |-> payload[j].comment]

DropsAsFile ==
    /\ \A j \in 1..Len(payload) : Rows[j] \in KeptRows
    /\ \A i \in KeptRows : Cardinality({j \in 1..Len(payload) : Rows[j] = i}) = 1
    /\ \A j, k \in 1..Len(payload) : j < k => Rows[j] < Rows[k]

\* C27: a record whose orgUnit is mapped to the drop sentinel is in no sanitized
\* batch; every other record of the batch is in it exactly once, and the records
\* transmitted stand in the order they had in the batch
C27_SentinelRecordsDropped == Sanitized => DropsAsFile

C27_Witness ==
    /\ Sanitized
    /\ Len(Given) = 2 /\ Len(payload) = 1
    /\ MappedToSentinel(Given[1]) /\ ~MappedToSentinel(Given[2])
    /\ Rows = <<2>>

\* field f of the transmitted record s is the image of field f of the given record r
\* when that value is a key of the map, and is as given (or missing as given) otherwise
ImageOrSame(r, s, f, map) ==
    IF f \in DOMAIN r /\ r[f] \in DOMAIN map
      THEN f \in DOMAIN s /\ s[f] = map[r[f]]
      ELSE /\ (f \in DOMAIN s) = (f \in DOMAIN r)
           /\ f \in DOMAIN r => s[f] = r[f]

IdentifiersAsFile ==
    \A j \in 1..Len(payload) :
        LET r == Given[Rows[j]]
            s == payload[j]
        IN /\ ImageOrSame(r, s, "categoryOptionCombo", Section("categoryOptionCombo"))
           /\ ImageOrSame(r, s, "attributeOptionCombo", Section("categoryOptionCombo"))
           /\ ImageOrSame(r, s, "orgUnit", Section("orgUnit"))

\* C28: in every transmitted record, categoryOptionCombo, attributeOptionCombo and
\* orgUnit hold the image of the given value when and only when that value is a key
\* of the map, and the given value otherwise
C28_IdentifiersMapped == Sanitized => IdentifiersAsFile

C28_Witness ==
    /\ Sanitized
    /\ Len(Given) = 2 /\ Len(payload) = 2
    /\ Get(Given[1], "orgUnit") = "ouA" /\ Get(payload[1], "orgUnit") = "ouB"
    /\ Get(Given[1], "categoryOptionCombo") = "cocA"
    /\ Get(payload[1], "categoryOptionCombo") = "cocB"
    /\ Get(Given[1], "attributeOptionCombo") = "cocA"
    /\ Get(payload[1], "attributeOptionCombo") = "cocB"
    /\ Get(Given[2], "orgUnit") = "ouC" /\ Get(payload[2], "orgUnit") = "ouC"
    /\ Get(Given[2], "categoryOptionCombo") = "cocC"
    /\ Get(payload[2], "categoryOptionCombo") = "cocC"

\* the rule of the record's data element, if there is one
RuleOf(r) ==
    IF "dataElement" \in DOMAIN r /\ r.dataElement \in DOMAIN Section("dataElement")
      THEN Section("dataElement")[r.dataElement]
      ELSE EmptyDict

\* a rule is an email rule when it sets fix_email, and a phone rule when it sets
\* fix_phone and not fix_email
EmailRule(r) == "fix_email" \in DOMAIN RuleOf(r) /\ RuleOf(r).fix_email = TRUE
PhoneRule(r) ==
    /\ ~EmailRule(r)
    /\ "fix_phone" \in DOMAIN RuleOf(r) /\ RuleOf(r).fix_phone = TRUE

\* the value of a record, empty when it has none
ValueOf(r) == IF "value" \in DOMAIN r THEN r.value ELSE <<>>

HasAtSign(v) == \E i \in 1..Len(v) : v[i] = "@"
HasLetter(v) == \E i \in 1..Len(v) : v[i] \in AlphaTokens

\* the value of the transmitted record s is the one of the given record r
SameValue(r, s) ==
    /\ ("value" \in DOMAIN s) = ("value" \in DOMAIN r)
    /\ "value" \in DOMAIN r => s.value = r.value

\* fields that neither the identifier maps nor the rules address
OtherFields(r) ==
    DOMAIN r \ {"categoryOptionCombo", "attributeOptionCombo", "orgUnit", "value"}

ValuesAsFile ==
    \A j \in 1..Len(payload) :
        LET r == Given[Rows[j]]
            s == payload[j]
        IN /\ EmailRule(r) =>
                IF HasAtSign(ValueOf(r))
                  THEN SameValue(r, s)
                  ELSE "value" \in DOMAIN s /\ s.value = PlaceholderEmail
           /\ PhoneRule(r) =>
                IF HasLetter(ValueOf(r))
                  THEN "value" \in DOMAIN s /\ s.value = PlaceholderPhone
                  ELSE SameValue(r, s)
           /\ (~EmailRule(r) /\ ~PhoneRule(r)) => SameValue(r, s)
           /\ OtherFields(s) = OtherFields(r)
           /\ \A f \in OtherFields(r) : s[f] = r[f]

\* C29: under an email rule the value becomes the placeholder address exactly when
\* it has no '@'; under a phone rule it becomes the placeholder number exactly when
\* it has a letter; without a rule the value stays, and so does every other field
C29_ValueRules == Sanitized => ValuesAsFile

C29_Witness ==
    /\ Sanitized
    /\ Len(Given) = 2 /\ Len(payload) = 2
    /\ EmailRule(Given[1]) /\ ValueOf(Given[1]) = <<"bad">>
    /\ payload[1].value = PlaceholderEmail
    /\ EmailRule(Given[2]) /\ ValueOf(Given[2]) = <<"a", "@", "b", ".", "com">>
    /\ payload[2].value = <<"a", "@", "b", ".", "com">>

\* C30: what a normal-mode send_batch transmits is what mappings.json dictates as
\* the file stands at that call, whatever it held at an earlier call; with the
\* file absent the batch is transmitted as given
C30_MappingsReadAtEverySend ==
    Sanitized =>
        /\ obs.mappings_read = mapping_file
        /\ DropsAsFile /\ IdentifiersAsFile /\ ValuesAsFile
        /\ mapping_file.kind = "absent" => payload = Given

C30_Witness ==
    /\ Sanitized
    /\ obs.sends = 2
    /\ obs.mappings_prev.kind = "object"
    /\ "orgUnit" \in DOMAIN obs.mappings_prev.value
    /\ "ouB" \in DOMAIN obs.mappings_prev.value.orgUnit
    /\ mapping_file.kind = "absent"
    /\ Len(Given) = 2
    /\ Get(Given[1], "orgUnit") = "ouB"
    /\ obs.mappings_prev.value.orgUnit["ouB"] = DropSentinel
    /\ payload = Given

---------------------------------------------------------------------------
(* Further properties of the run, checked under Spec *)

\* the batch in progress has reached its end and the statement of line 516 has not
\* been left yet
PauseDue == obs.outcome \in {"Delivered", "SkippedAfterFailure"}

\* C31: with a delay configured, the run has paused once for every batch that
\* reached Delivered or SkippedAfterFailure (the one at line 516 excepted), each time
\* for inter_batch_delay and before the next batch is fetched, and never while a
\* batch is being sent or sent again; with no delay configured it never pauses
C31_PauseOncePerFinishedBatch ==
    /\ config.inter_batch_delay > 0 =>
          obs.pauses + (IF PauseDue THEN 1 ELSE 0) = obs.delivered + obs.skipped
    /\ config.inter_batch_delay = 0 => obs.pauses = 0 /\ obs.rate_slept = 0
    /\ pc \in {"send", "post", "poll", "check", "retry_sleep", "delay"} => obs.rate_slept = 0
    /\ (pc \in {"for", "body", "exhausted"} /\ obs.fetched > 0 /\ config.inter_batch_delay > 0)
          => obs.rate_slept = config.inter_batch_delay

C31_Witness ==
    /\ pc = "retry_sleep" /\ obs.net_fails = 1
    /\ obs.fetched = 2 /\ obs.pauses = 1 /\ obs.delivered = 1
    /\ config.endpoint_type = "aggregate"

\* the result is the one of line 207 for an exception raised by the GET itself, not
\* by response.json()
PollGetRaised ==
    /\ pc = "check" /\ obs.via = 207
    /\ ~Contains(result.message, <<"Expecting", "value">>)

\* C32: a job-status GET that raises gives a failure that carries the network-error
\* marker, and run waits and sends the batch again instead of counting it as failed
C32_PollGetFailureIsTransient ==
    [][PollGetRaised =>
         /\ NetworkClass(result)
         /\ pc' = "retry_sleep"
         /\ failed_batches' = failed_batches]_vars

\* C33: with mappings.json unchanged, the record list posted when a batch is sent
\* again is the one its first transmission posted, that is the batch as the batcher
\* yielded it, sanitized once
C33_RetransmissionPostsSameRecords ==
    (pc = "post" /\ obs.sends >= 2) =>
        payload = _sanitize_batch(LastYielded, mapping_file).sanitized

\* the run was cancelled, or its input could not be read to the end
CancelledOrUnreadable == obs.abort \in {"interrupt", "source"}

\* run has returned, the summary is out, and every batch the batcher yielded has
\* ended Delivered or SkippedAfterFailure
AllBatchesSettled ==
    /\ pc \in {"returned", "propagated"}
    /\ Len(summaries) = 1
    /\ gpc = "done"
    /\ obs.fetched = Len(yielded)
    /\ obs.delivered + obs.skipped = obs.fetched

\* C35: with network-class failures coming only finitely often in a row for each
\* batch, and an input that is finite and readable, a run that is not cancelled
\* ends with every batch Delivered or SkippedAfterFailure and the summary emitted
C35_RunSettlesEveryBatch == <>(CancelledOrUnreadable \/ AllBatchesSettled)

\* a batch has been fetched and has ended neither Delivered nor SkippedAfterFailure:
\* it is being attempted, or it was when the run was aborted
Attempted == IF obs.outcome \in {"Pending", "Aborted"} THEN 1 ELSE 0

\* C36: the batches processed are the batches delivered, the batches counted failed
\* and the batch being attempted, if any; so failed <= processed. A run that reads
\* its input to the end has processed every batch yielded, and an aborted run counts
\* the batch it was attempting.
C36_ProcessedIsDeliveredFailedAttempted ==
    /\ total_batches = obs.delivered + failed_batches + Attempted
    /\ failed_batches <= total_batches
    /\ (pc = "returned" /\ obs.abort = "none") =>
          /\ total_batches = Len(yielded)
          /\ Attempted = 0
    /\ (pc = "returned" /\ obs.outcome = "Aborted") =>
          /\ total_batches = obs.delivered + failed_batches + 1
          /\ summaries[1].batches = total_batches

\* Ctrl-C during the second batch, the first one skipped
C36_Witness ==
    /\ pc = "returned"
    /\ obs.abort = "interrupt"
    /\ obs.outcome = "Aborted"
    /\ total_batches = 2
    /\ failed_batches = 1
    /\ obs.delivered = 0

\* C37: in normal mode the records uploaded, as counted by run and as reported in
\* the summary, are the records that were in the payloads of the sends that
\* returned success
C37_UploadedIsRecordsPosted ==
    ~config.dry_run =>
        /\ total_records = obs.posted
        /\ pc = "returned" => summaries[1].records = obs.posted

\* C38: a request to the remote API carries at least one record
C38_NoPostOfEmptyRecordList == pc = "post" => payload # <<>>

---------------------------------------------------------------------------
(* Properties of the schedules, checked under SpecSchedules *)

\* ids of the jobs the scheduler holds
Registered == {j.id : j \in jobs}

\* ids of the enabled rows whose job type has a runner
Due == {r.id : r \in {x \in rows : x.enabled /\ x.job_type \in JOB_RUNNERS}}

\* C39: the scheduler holds a job with id J exactly when the table holds an enabled
\* row with id J and a known job type
C39_SchedulerMatchesTable == Registered = Due

====
